---- MODULE Spec2Model ----
(***************************************************************************)
(* Model of generate_map.py: the listing crawl, the marker resolution and  *)
(* the map builder.  Text is modelled as sequences of one-character        *)
(* strings (dates, numbers) or of lexical tokens (URLs, page bodies), so   *)
(* that parsing and formatting are computed, not assumed.                  *)
(***************************************************************************)
EXTENDS Integers, Sequences, FiniteSets, TLC

VARIABLES
    pc,                \* position of the program
    detail,            \* the site: response of requests.get(link) per event link
    i,                 \* index of the listing page of the main loop (offset = i * step)
    html,              \* response.text of the listing page being processed
    li,                \* index of the next <li> of the parse loop
    events_info,       \* set of stubs returned by extract_event_links_and_dates
    todo,              \* stubs the iteration over events_info has not yielded yet
    marker_positions,  \* list built by extract_marker_positions / argument of generate_map
    positions,         \* list accumulated by the main loop
    m,                 \* the folium map under construction
    file,              \* the file at output_file
    fetched,           \* history: offsets of the listing fetches, in order
    loaded,            \* history: whether the last listing fetch succeeded
    requested,         \* history: links whose detail page was requested for the current page
    origin,            \* history: for each element of positions, the offset of its listing page
    discovered,        \* history: every stub any listing page yielded
    writes,            \* history: number of writes of output_file
    mapCalls           \* history: number of calls of generate_map

vars == <<pc, detail, i, html, li, events_info, todo, marker_positions, positions,
          m, file, fetched, loaded, requested, origin, discovered, writes, mapCalls>>

-----------------------------------------------------------------------------
(* Bounds of the model *)

\* longest listing page (number of <li> entries) handed to the parser and to
\* extract_marker_positions alone
MaxEntries == 3

\* longest listing page the crawled site serves
MaxListed == 2

\* number of leading listing pages that list events; later pages are empty
LivePages == 2

\* longest list handed to generate_map in the map-builder specification
MaxMarkers == 2

-----------------------------------------------------------------------------
(* Program constants *)

range_start == 0
range_stop == 200
range_step == 10

\* range(0, 200, 10)
Offsets == [k \in 1..((range_stop - range_start + range_step - 1) \div range_step)
              |-> range_start + (k - 1) * range_step]

Origin == "https://fftri.t2area.com"

\* url, as tokens
url == <<Origin, "/", "calendrier.html">>

-----------------------------------------------------------------------------
(* Characters and numbers *)

Digits == <<"0", "1", "2", "3", "4", "5", "6", "7", "8", "9">>

IsDigit(c) == \E k \in 1..10 : Digits[k] = c

DigitVal(c) == (CHOOSE k \in 1..10 : Digits[k] = c) - 1

RECURSIVE DecValue(_)
\* value of a sequence of decimal digits
DecValue(s) ==
    IF s = <<>> THEN 0
    ELSE 10 * DecValue(SubSeq(s, 1, Len(s) - 1)) + DigitVal(s[Len(s)])

RECURSIVE DecString(_)
\* str(n) for n >= 0
DecString(n) ==
    IF n < 10 THEN <<Digits[n + 1]>>
    ELSE Append(DecString(n \div 10), Digits[(n % 10) + 1])

Min(S) == CHOOSE x \in S : \A y \in S : x <= y

-----------------------------------------------------------------------------
(* datetime.strptime(date, "%Y-%m-%d") *)

ValueError == [ok |-> FALSE, year |-> 0, month |-> 0, day |-> 0]

\* %m : 1[0-2]|0[1-9]|[1-9]
MatchMonth(t) ==
    \/ Len(t) = 2 /\ t[1] = "1" /\ t[2] \in {"0", "1", "2"}
    \/ Len(t) = 2 /\ t[1] = "0" /\ IsDigit(t[2]) /\ t[2] # "0"
    \/ Len(t) = 1 /\ IsDigit(t[1]) /\ t[1] # "0"

\* %d : 3[0-1]|[1-2]\d|0[1-9]|[1-9]| [1-9]
MatchDay(t) ==
    \/ Len(t) = 2 /\ t[1] = "3" /\ t[2] \in {"0", "1"}
    \/ Len(t) = 2 /\ t[1] \in {"1", "2"} /\ IsDigit(t[2])
    \/ Len(t) = 2 /\ t[1] \in {"0", " "} /\ IsDigit(t[2]) /\ t[2] # "0"
    \/ Len(t) = 1 /\ IsDigit(t[1]) /\ t[1] # "0"

IsLeap(y) == (y % 4 = 0 /\ y % 100 # 0) \/ y % 400 = 0

DaysInMonth(y, mo) ==
    IF mo = 2 THEN (IF IsLeap(y) THEN 29 ELSE 28)
    ELSE IF mo \in {4, 6, 9, 11} THEN 30 ELSE 31

\* the digits of a month or day field, a leading blank dropped
FieldValue(t) == DecValue(SelectSeq(t, IsDigit))

strptime(s) ==
    LET n == Len(s)
        headOk == /\ n >= 6
                  /\ \A k \in 1..4 : IsDigit(s[k])
                  /\ s[5] = "-"
        dashes == {k \in 6..n : s[k] = "-"}
    IN  IF ~headOk \/ dashes = {} THEN ValueError
        ELSE LET p == Min(dashes)
                 mon == SubSeq(s, 6, p - 1)
                 dd == SubSeq(s, p + 1, n)
                 y == DecValue(SubSeq(s, 1, 4))
             IN  IF ~(MatchMonth(mon) /\ MatchDay(dd)) THEN ValueError
                 ELSE IF y < 1 \/ FieldValue(dd) > DaysInMonth(y, FieldValue(mon))
                      THEN ValueError
                 ELSE [ok |-> TRUE, year |-> y, month |-> FieldValue(mon),
                       day |-> FieldValue(dd)]

-----------------------------------------------------------------------------
(* urllib.parse.urljoin(base_url, href), on URLs without dot segments *)

IsAbsolute(u) == u # <<>> /\ u[1] = Origin

\* the base URL up to and including the last "/" of its path
BaseDir(base) ==
    LET q == {k \in 1..Len(base) : base[k] = "?"}
        pathEnd == IF q = {} THEN Len(base) ELSE Min(q) - 1
        slashes == {k \in 1..pathEnd : base[k] = "/"}
    IN  SubSeq(base, 1, CHOOSE k \in slashes : \A j \in slashes : j <= k)

urljoin(base, href) ==
    IF href = <<>> THEN base
    ELSE IF IsAbsolute(href) THEN href
    ELSE IF href[1] = "/" THEN <<base[1]>> \o href
    ELSE BaseDir(base) \o href

\* url + f"?limitstart={i}"
start_url(offset) == url \o <<"?limitstart=">> \o DecString(offset)

-----------------------------------------------------------------------------
(* float(text) for text drawn from [-\d.]+ ; a float is num / 10^exp *)

RECURSIVE Normal(_)
Normal(x) ==
    IF x.num = 0 THEN [num |-> 0, exp |-> 0]
    ELSE IF x.exp > 0 /\ x.num % 10 = 0
         THEN Normal([num |-> x.num \div 10, exp |-> x.exp - 1])
    ELSE x

Zero == [num |-> 0, exp |-> 0]

FloatError == [ok |-> FALSE, val |-> Zero]

float(t) ==
    LET neg == t # <<>> /\ t[1] = "-"
        rest == IF neg THEN SubSeq(t, 2, Len(t)) ELSE t
        dots == {k \in 1..Len(rest) : rest[k] = "."}
        digs == SelectSeq(rest, IsDigit)
        wellFormed == /\ \A k \in 1..Len(rest) : rest[k] # "-"
                      /\ Cardinality(dots) <= 1
                      /\ digs # <<>>
        e == IF dots = {} THEN 0 ELSE Len(rest) - Min(dots)
        v == DecValue(digs)
    IN  IF ~wellFormed THEN FloatError
        ELSE [ok |-> TRUE,
              val |-> Normal([num |-> IF neg THEN 0 - v ELSE v, exp |-> e])]

-----------------------------------------------------------------------------
(* marker_pattern.search(page.text), on page bodies given as lexical tokens *)

\* \s
SpaceChars == {" ", "\n", "\t"}

\* [-\d.]
NumChars == {Digits[k] : k \in 1..10} \cup {"-", "."}

At(s, k) == IF k \in 1..Len(s) THEN s[k] ELSE ""

\* first position from p on whose token is not in class
SpanEnd(s, p, class) == Min({k \in p..(Len(s) + 1) : k = Len(s) + 1 \/ s[k] \notin class})

NoMatch == [ok |-> FALSE, g1 |-> <<>>, g2 |-> <<>>]

Lit(tok) == [kind |-> "literal", tok |-> tok]
Spaces == [kind |-> "\\s*", tok |-> ""]
Spaces1 == [kind |-> "\\s+", tok |-> ""]
Group == [kind |-> "([-\\d.]+)", tok |-> ""]

\* var\s+marker\s*=\s*L\.marker\(\s*\[\s*([-\d.]+)\s*,\s*([-\d.]+)\s*\]
marker_pattern ==
    <<Lit("var"), Spaces1, Lit("marker"), Spaces, Lit("="), Spaces, Lit("L.marker("),
      Spaces, Lit("["), Spaces, Group, Spaces, Lit(","), Spaces, Group, Spaces, Lit("]")>>

RECURSIVE MatchFrom(_, _, _, _)
\* the pattern from its k-th element on, against s from position p on
MatchFrom(s, p, k, groups) ==
    IF k > Len(marker_pattern)
    THEN [ok |-> TRUE, g1 |-> groups[1], g2 |-> groups[2]]
    ELSE LET el == marker_pattern[k]
         IN  IF el.kind = "literal"
             THEN IF At(s, p) = el.tok THEN MatchFrom(s, p + 1, k + 1, groups)
                  ELSE NoMatch
             ELSE LET q == SpanEnd(s, p, SpaceChars)
                      r == SpanEnd(s, p, NumChars)
                  IN  IF el.kind = Spaces.kind THEN MatchFrom(s, q, k + 1, groups)
                      ELSE IF el.kind = Spaces1.kind
                           THEN IF q > p THEN MatchFrom(s, q, k + 1, groups) ELSE NoMatch
                      ELSE IF r > p
                           THEN MatchFrom(s, r, k + 1, Append(groups, SubSeq(s, p, r - 1)))
                           ELSE NoMatch

MatchAt(s, p) == MatchFrom(s, p, 1, <<>>)

search(s) ==
    LET hits == {p \in 1..Len(s) : MatchAt(s, p).ok}
    IN  IF hits = {} THEN NoMatch ELSE MatchAt(s, Min(hits))

-----------------------------------------------------------------------------
(* class Event *)

Event(link, datetime, lat, lon) ==
    [link |-> link, datetime |-> datetime, lat |-> lat, lon |-> lon]

\* Event(url, date) : lat and lon take their defaults 0.0
Stub(link, datetime) == Event(link, datetime, Zero, Zero)

TitlePrefix == <<Origin, "/", "calendrier", "/">>

TitleSuffix == <<".html">>

removeprefix(s, pre) ==
    IF Len(s) >= Len(pre) /\ SubSeq(s, 1, Len(pre)) = pre
    THEN SubSeq(s, Len(pre) + 1, Len(s)) ELSE s

removesuffix(s, suf) ==
    IF Len(s) >= Len(suf) /\ SubSeq(s, Len(s) - Len(suf) + 1, Len(s)) = suf
    THEN SubSeq(s, 1, Len(s) - Len(suf)) ELSE s

\* str.title() of the tokens URLs are made of; other tokens hold no letters
TitleCase(tok) ==
    CASE tok = "autumn" -> "Autumn"
      [] tok = "forest" -> "Forest"
      [] tok = "walk" -> "Walk"
      [] tok = "trail" -> "Trail"
      [] tok = "calendrier" -> "Calendrier"
      [] tok = ".html" -> ".Html"
      [] tok = "calendrier.html" -> "Calendrier.Html"
      [] tok = "?limitstart=" -> "?Limitstart="
      [] tok = Origin -> "Https://Fftri.T2Area.Com"
      [] OTHER -> tok

title(link) ==
    LET core == removesuffix(removeprefix(link, TitlePrefix), TitleSuffix)
    IN  [k \in 1..Len(core) |-> IF core[k] = "-" THEN " " ELSE TitleCase(core[k])]

MonthName == <<"January", "February", "March", "April", "May", "June", "July",
               "August", "September", "October", "November", "December">>

\* datetime.strftime("%B %d, %Y")
strftime(d) ==
    <<MonthName[d.month], " ">>
    \o (IF d.day < 10 THEN <<"0">> ELSE <<>>) \o DecString(d.day)
    \o <<",", " ">> \o DecString(d.year)

\* the popup's html of generate_map
PopupHtml(event) ==
    [href |-> event.link, text |-> title(event.link), date |-> strftime(event.datetime)]

-----------------------------------------------------------------------------
(* The site: listing pages and detail pages *)

HrefAbs1 == <<Origin, "/", "calendrier", "/", "autumn", "-", "forest", "-", "walk", ".html">>
HrefRel1 == <<"calendrier", "/", "autumn", "-", "forest", "-", "walk", ".html">>
HrefRoot2 == <<"/", "calendrier", "/", "trail", ".html">>

HrefAbs3 == <<Origin, "/", "calendrier", "/", "walk", ".html">>

Link1 == HrefAbs1
Link2 == <<Origin>> \o HrefRoot2

Link3 == HrefAbs3

\* the event links of the crawled site
Links == {Link1, Link2}

\* the event links of the pages handed to extract_marker_positions alone
ResolveLinks == {Link1, Link2, Link3}

DateA == <<"2", "0", "2", "4", "-", "0", "4", "-", "0", "5">>
DateB == <<"2", "0", "2", "4", "-", "1", "2", "-", "3", "1">>
DateUnpadded == <<"2", "0", "2", "4", "-", "4", "-", "5">>
DateBlankDay == <<"2", "0", "2", "4", "-", "0", "4", "-", " ", "5">>
DateSlashes == <<"0", "5", "/", "0", "4", "/", "2", "0", "2", "4">>
DateNoSuchDay == <<"2", "0", "2", "3", "-", "0", "2", "-", "2", "9">>
DateTrailing == <<"2", "0", "2", "4", "-", "0", "4", "-", "0", "5", "T">>

Dates == {DateA, DateB, DateUnpadded, DateBlankDay, DateSlashes, DateNoSuchDay,
          DateTrailing}

\* one <li> of ul#adv-filter-gallery: its headline <a>, the <a>'s href, its time[datetime]
Entry(has_a, has_href, href, has_time, datetime) ==
    [has_a |-> has_a, has_href |-> has_href, href |-> href,
     has_time |-> has_time, datetime |-> datetime]

EntryNoAnchor == Entry(FALSE, FALSE, <<>>, TRUE, DateA)
EntryNoHref == Entry(TRUE, FALSE, <<>>, TRUE, DateA)
EntryNoTime == Entry(TRUE, TRUE, HrefRoot2, FALSE, <<>>)

\* the entries of the listing pages handed to the parser
Entries ==
    {Entry(TRUE, TRUE, HrefRel1, TRUE, d) : d \in Dates}
    \cup {Entry(TRUE, TRUE, HrefAbs1, TRUE, d) : d \in {DateA, DateB}}
    \cup {Entry(TRUE, TRUE, HrefRoot2, TRUE, d) : d \in {DateA, DateUnpadded}}
    \cup {EntryNoAnchor, EntryNoHref, EntryNoTime}

\* the entries of the listing pages the crawled site serves
CrawlEntries ==
    {Entry(TRUE, TRUE, HrefRel1, TRUE, DateA),
     Entry(TRUE, TRUE, HrefRoot2, TRUE, DateB),
     Entry(TRUE, TRUE, HrefRoot2, TRUE, DateSlashes)}

\* the entries of the listing page handed to extract_marker_positions alone
ResolveEntries ==
    {Entry(TRUE, TRUE, HrefRel1, TRUE, DateA),
     Entry(TRUE, TRUE, HrefRoot2, TRUE, DateB),
     Entry(TRUE, TRUE, HrefAbs3, TRUE, DateUnpadded)}

Pages(E, n) == UNION {[1..k -> E] : k \in 0..n}

BodyMarkerA ==
    <<"<script>", "var", " ", "marker", " ", "=", " ", "L.marker(", "[",
      "4", "8", ".", "8", "5", ",", "2", ".", "3", "5", "]", ")", ";", "</script>">>

BodyMarkerB ==
    <<"var", "marker", "=", "L.marker(", "[", "9", ",", "9", "]", "\n",
      "var", "\n", "\t", "marker", "=", "L.marker(", " ", "[", " ", "-", ".", "5", " ",
      ",", " ", "4", "3", ".", "6", "0", " ", "]", ";",
      "var", " ", "marker", "=", "L.marker(", "[", "1", ",", "1", "]">>

BodyNoMarker ==
    <<"<script>", "var", " ", "map", "=", "L.map(", "[", "4", "8", ",", "2", "]", ")",
      "</script>">>

BodyBadNumber ==
    <<"var", " ", "marker", "=", "L.marker(", "[", "1", ".", "2", ".", "3", ",",
      "2", ".", "3", "5", "]">>

Bodies == {BodyMarkerA, BodyMarkerB, BodyNoMarker, BodyBadNumber}

\* requests.get + raise_for_status: a RequestException, or a body
TransportError == [ok |-> FALSE, text |-> <<>>]
Ok(text) == [ok |-> TRUE, text |-> text]

DetailResponses == {TransportError} \cup {Ok(b) : b \in Bodies}

-----------------------------------------------------------------------------
(* extract_event_links_and_dates: one iteration of the loop over the entries *)

\* ParseLi with the try around the whole loop: a bad date ends the parse empty-handed
ParseLi_BadDateDropsAll(events, e, base_url) ==
    IF e.has_a /\ e.has_time /\ e.has_href
    THEN LET d == strptime(e.datetime)
         IN  IF ~d.ok THEN {}
             ELSE events \cup
                  {Stub(urljoin(base_url, e.href),
                        [year |-> d.year, month |-> d.month, day |-> d.day])}
    ELSE events

\* the body of the loop over the <li> entries: events after one entry
ParseLi(events, e, base_url) ==
    IF e.has_a /\ e.has_time
    THEN IF ~e.has_href THEN events                        \* KeyError, logged
         ELSE LET d == strptime(e.datetime)
              IN  IF ~d.ok THEN events                     \* ValueError, logged
                  ELSE events \cup
                       {Stub(urljoin(base_url, e.href),
                             [year |-> d.year, month |-> d.month, day |-> d.day])}
    ELSE events

-----------------------------------------------------------------------------
(* extract_marker_positions: one iteration of the loop over events_info *)

\* Resolve with the else branch keeping the stub, coordinates unresolved
Resolve_KeepsUnresolved(evt, page) ==
    IF ~page.ok THEN [outcome |-> "continue", event |-> evt]
    ELSE LET match == search(page.text)
         IN  IF match.ok /\ float(match.g1).ok /\ float(match.g2).ok
             THEN [outcome |-> "append",
                   event |-> Event(evt.link, evt.datetime, float(match.g1).val,
                                   float(match.g2).val)]
             ELSE IF match.ok THEN [outcome |-> "raise", event |-> evt]
             ELSE [outcome |-> "append", event |-> evt]

\* what the loop body does with evt, given the response to requests.get(evt.link)
Resolve(evt, page) ==
    IF ~page.ok THEN [outcome |-> "continue", event |-> evt]
    ELSE LET match == search(page.text)
         IN  IF match.ok
             THEN LET lat == float(match.g1)
                      lon == float(match.g2)
                  IN  IF lat.ok /\ lon.ok
                      THEN [outcome |-> "append",
                            event |-> Event(evt.link, evt.datetime, lat.val, lon.val)]
                      ELSE [outcome |-> "raise", event |-> evt]   \* ValueError, not caught
             ELSE [outcome |-> "no marker", event |-> evt]

-----------------------------------------------------------------------------
(* generate_map *)

NoFile == [exists |-> FALSE, controls |-> 0, markers |-> <<>>]

NoMap == [controls |-> 0, markers |-> <<>>]

\* Marker with the coordinates in the order [lon, lat]
Marker_Swapped(event) == [location |-> <<event.lon, event.lat>>, popup |-> PopupHtml(event)]

\* folium.Marker([event.lat, event.lon], popup=popup)
Marker(event) == [location |-> <<event.lat, event.lon>>, popup |-> PopupHtml(event)]

\* a file left at output_file by an earlier run
OldFile ==
    [exists |-> TRUE, controls |-> 1,
     markers |-> <<Marker(Event(Link2, [year |-> 2023, month |-> 1, day |-> 1],
                                [num |-> 45, exp |-> 0], [num |-> 5, exp |-> 0]))>>]

\* m.save(output_file)
Saved(map) == [exists |-> TRUE, controls |-> map.controls, markers |-> map.markers]

\* generate_map without its early return
NothingToPlot_Never(list) == FALSE

\* whether generate_map returns at once
NothingToPlot(list) == list = <<>>

-----------------------------------------------------------------------------
(* The program: __main__ *)

NumPages == Len(Offsets)

\* the state shared by every initial condition
Blank ==
    /\ i = 1
    /\ li = 1
    /\ events_info = {}
    /\ todo = {}
    /\ positions = <<>>
    /\ m = NoMap
    /\ fetched = <<>>
    /\ loaded = FALSE
    /\ requested = {}
    /\ origin = <<>>
    /\ discovered = {}
    /\ writes = 0
    /\ mapCalls = 0

Init ==
    /\ pc = "main"
    /\ detail \in [Links -> DetailResponses]
    /\ file = NoFile
    /\ html = <<>>
    /\ marker_positions = <<>>
    /\ Blank

\* requests.get(start_url) raises a RequestException: the page yields []
LoadFailed ==
    /\ pc = "main"
    /\ i <= NumPages
    /\ fetched' = Append(fetched, Offsets[i])
    /\ requested' = {}
    /\ html' = <<>>
    /\ events_info' = {}
    /\ marker_positions' = <<>>
    /\ i' = i + 1
    /\ loaded' = FALSE
    /\ UNCHANGED <<pc, detail, li, todo, positions, m, file, origin, discovered, writes,
                   mapCalls>>

\* requests.get(start_url) answers with a listing page
LoadOk ==
    /\ pc = "main"
    /\ i <= NumPages
    /\ \E page \in (IF i <= LivePages THEN Pages(CrawlEntries, MaxListed) ELSE {<<>>}) :
          html' = page
    /\ fetched' = Append(fetched, Offsets[i])
    /\ requested' = {}
    /\ li' = 1
    /\ events_info' = {}
    /\ marker_positions' = <<>>
    /\ pc' = "parse"
    /\ loaded' = TRUE
    /\ UNCHANGED <<detail, i, todo, positions, m, file, origin, discovered, writes,
                   mapCalls>>

\* one iteration of the loop of extract_event_links_and_dates
ParseEntry ==
    /\ pc = "parse"
    /\ li <= Len(html)
    /\ events_info' = ParseLi(events_info, html[li], start_url(Offsets[i]))
    /\ li' = li + 1
    /\ UNCHANGED <<pc, detail, i, html, todo, marker_positions, positions, m, file,
                   fetched, loaded, requested, origin, discovered, writes, mapCalls>>

\* extract_event_links_and_dates returns; the loop over events_info starts
ParseReturn ==
    /\ pc = "parse"
    /\ li > Len(html)
    /\ todo' = events_info
    /\ discovered' = discovered \cup events_info
    /\ marker_positions' = <<>>
    /\ pc' = "resolve"
    /\ UNCHANGED <<detail, i, html, li, events_info, positions, m, file, fetched,
                   loaded, requested, origin, writes, mapCalls>>

\* one iteration of the loop over events_info, in the set's iteration order
ResolveOne ==
    /\ pc = "resolve"
    /\ \E evt \in todo :
          LET r == Resolve(evt, detail[evt.link])
          IN  /\ requested' = requested \cup {evt.link}
              /\ todo' = todo \ {evt}
              /\ marker_positions' =
                    IF r.outcome = "append" THEN Append(marker_positions, r.event)
                    ELSE marker_positions
              /\ pc' = IF r.outcome = "raise" THEN "crashed" ELSE "resolve"
    /\ UNCHANGED <<detail, i, html, li, events_info, positions, m, file, fetched,
                   loaded, origin, discovered, writes, mapCalls>>

\* extract_marker_positions returns; positions += marker_positions
ReturnMarkers ==
    /\ pc = "resolve"
    /\ todo = {}
    /\ positions' = positions \o marker_positions
    /\ origin' = origin \o [k \in 1..Len(marker_positions) |-> Offsets[i]]
    /\ i' = i + 1
    /\ pc' = "main"
    /\ UNCHANGED <<detail, html, li, events_info, todo, marker_positions, m, file,
                   fetched, loaded, requested, discovered, writes, mapCalls>>

\* the loop over the offsets ends; generate_map(positions) is called
MainExit ==
    /\ pc = "main"
    /\ i > NumPages
    /\ marker_positions' = positions
    /\ pc' = "generate_map"
    /\ UNCHANGED <<detail, i, html, li, events_info, todo, positions, m, file, fetched,
                   loaded, requested, origin, discovered, writes, mapCalls>>

\* generate_map up to its loop: the early return, or the map and its button
GenerateMap ==
    /\ pc = "generate_map"
    /\ mapCalls' = mapCalls + 1
    /\ IF NothingToPlot(marker_positions)
       THEN /\ pc' = "done"
            /\ m' = m
       ELSE /\ pc' = "markers"
            /\ m' = [controls |-> 1, markers |-> <<>>]
    /\ UNCHANGED <<detail, i, html, li, events_info, todo, marker_positions, positions,
                   file, fetched, loaded, requested, origin, discovered, writes>>

\* one iteration of the loop over marker_positions
AddMarker ==
    /\ pc = "markers"
    /\ Len(m.markers) < Len(marker_positions)
    /\ m' = [m EXCEPT !.markers = Append(@, Marker(marker_positions[Len(m.markers) + 1]))]
    /\ UNCHANGED <<pc, detail, i, html, li, events_info, todo, marker_positions,
                   positions, file, fetched, loaded, requested, origin, discovered, writes,
                   mapCalls>>

\* m.save(output_file)
Save ==
    /\ pc = "markers"
    /\ Len(m.markers) = Len(marker_positions)
    /\ file' = Saved(m)
    /\ writes' = writes + 1
    /\ pc' = "done"
    /\ UNCHANGED <<detail, i, html, li, events_info, todo, marker_positions, positions,
                   m, fetched, loaded, requested, origin, discovered, mapCalls>>

Next ==
    \/ LoadFailed
    \/ LoadOk
    \/ ParseEntry
    \/ ParseReturn
    \/ ResolveOne
    \/ ReturnMarkers
    \/ MainExit
    \/ GenerateMap
    \/ AddMarker
    \/ Save

Spec == Init /\ [][Next]_vars

-----------------------------------------------------------------------------
(* extract_event_links_and_dates alone, on every listing page of the bound *)

InitParse ==
    /\ pc = "parse"
    /\ detail = [l \in Links |-> TransportError]
    /\ file = NoFile
    /\ marker_positions = <<>>
    /\ Blank
    /\ html \in Pages(Entries, MaxEntries)

NextParse == ParseEntry \/ ParseReturn

SpecParse == InitParse /\ [][NextParse]_vars

-----------------------------------------------------------------------------
(* extract_marker_positions alone, on one listing page of three events *)

InitResolve ==
    /\ pc = "parse"
    /\ detail \in [ResolveLinks -> DetailResponses]
    /\ file = NoFile
    /\ marker_positions = <<>>
    /\ Blank
    /\ html \in Pages(ResolveEntries, MaxEntries)

NextResolve == ParseEntry \/ ParseReturn \/ ResolveOne \/ ReturnMarkers

SpecResolve == InitResolve /\ [][NextResolve]_vars

-----------------------------------------------------------------------------
(* generate_map alone, on every list of the bound *)

MapEvents ==
    {Event(Link1, [year |-> 2024, month |-> 4, day |-> 5],
           [num |-> 4885, exp |-> 2], [num |-> 235, exp |-> 2]),
     Event(Link1, [year |-> 2024, month |-> 12, day |-> 31],
           [num |-> 4885, exp |-> 2], [num |-> 235, exp |-> 2]),
     Event(Link2, [year |-> 2024, month |-> 4, day |-> 5],
           [num |-> -5, exp |-> 1], [num |-> 436, exp |-> 1]),
     Event(Link2, [year |-> 2024, month |-> 4, day |-> 5], Zero, Zero)}

InitMap ==
    /\ pc = "generate_map"
    /\ detail = [l \in Links |-> TransportError]
    /\ file \in {NoFile, OldFile}
    /\ html = <<>>
    /\ Blank
    /\ marker_positions \in UNION {[1..k -> MapEvents] : k \in 0..MaxMarkers}

NextMap == GenerateMap \/ AddMarker \/ Save

SpecMap == InitMap /\ [][NextMap]_vars

-----------------------------------------------------------------------------
(* Properties *)

Range(seq) == {seq[k] : k \in 1..Len(seq)}

\* C1: the merged list handed to generate_map holds exactly one entry per
\* distinct link, also when several listing pages list the same link.
C1_MergedOnePerLink ==
    pc = "generate_map" =>
        \A l \in {e.link : e \in Range(marker_positions)} :
            Cardinality({k \in 1..Len(marker_positions) : marker_positions[k].link = l}) = 1

\* C2: the set returned by one listing-page parse never holds two Events with
\* the same link, whatever their dates.
C2_ParsedOnePerLink ==
    pc = "resolve" =>
        \A a \in events_info, b \in events_info : a.link = b.link => a = b

\* a body holding the marker literal: the pattern, with decimal numbers in it
HasMarkerLiteral(text) ==
    LET match == search(text)
    IN  match.ok /\ float(match.g1).ok /\ float(match.g2).ok

\* C3: when the detail fetch of one event of a page fails, every other event
\* of the page whose detail page is fetchable and holds the marker literal is
\* resolved and in the page's result, in every processing order.
C3_ResolverIsolation ==
    (pc \in {"main", "crashed"} /\ \E f \in events_info : ~detail[f.link].ok) =>
        \A e \in events_info :
            (detail[e.link].ok /\ HasMarkerLiteral(detail[e.link].text)) =>
                \E k \in 1..Len(marker_positions) :
                    /\ marker_positions[k].link = e.link
                    /\ marker_positions[k].datetime = e.datetime

\* C4: marker resolution of a fetched body never raises: a body matching the
\* pattern yields an Event with the stub's link and date and the numeric values
\* of the two groups, any other body drops the event, and the loop goes on.
C4_ResolutionNeverRaises ==
    /\ pc # "crashed"
    /\ pc = "resolve" =>
          \A e \in events_info \ todo :
              detail[e.link].ok =>
                  LET match == search(detail[e.link].text)
                  IN  match.ok <=>
                          Event(e.link, e.datetime, float(match.g1).val,
                                float(match.g2).val) \in Range(marker_positions)

\* C5: a failed listing fetch yields no events and no detail fetches, and in
\* every run each of the 20 offsets is fetched exactly once, in increasing
\* order, whatever fails and whatever the pages contain.
C5_EveryOffsetFetchedOnce ==
    /\ \E n \in 0..NumPages : fetched = [k \in 1..n |-> Offsets[k]]
    /\ (pc = "main" /\ i > 1 /\ ~loaded) =>
          (requested = {} /\ events_info = {} /\ marker_positions = <<>>)
    /\ pc \in {"done", "crashed"} => fetched = [k \in 1..NumPages |-> Offsets[k]]

\* the date a datetime attribute names, field by field
Field(s, from, to) == DecValue(SelectSeq(SubSeq(s, from, to), IsDigit))

RealDay(y, mo, d) == y >= 1 /\ mo \in 1..12 /\ d \in 1..DaysInMonth(y, mo)

AllDigits(s, from, to) == from <= to /\ \A k \in from..to : IsDigit(s[k])

SecondDash(s) == IF Len(s) >= 7 /\ s[7] = "-" THEN 7 ELSE 8

DateOf(s) ==
    [year |-> Field(s, 1, 4), month |-> Field(s, 6, SecondDash(s) - 1),
     day |-> Field(s, SecondDash(s) + 1, Len(s))]

\* YYYY-MM-DD: four, two and two digits, naming a day of the calendar
IsoDate(s) ==
    /\ Len(s) = 10
    /\ s[5] = "-" /\ s[8] = "-"
    /\ AllDigits(s, 1, 4) /\ AllDigits(s, 6, 7) /\ AllDigits(s, 9, 10)
    /\ RealDay(DateOf(s).year, DateOf(s).month, DateOf(s).day)

\* what the "%Y-%m-%d" parser takes: a four-digit year, a month of one or two
\* digits, a day of one or two digits or of a blank and a digit, naming a day
\* of the calendar
AcceptedDate(s) ==
    LET p == SecondDash(s)
    IN  /\ Len(s) \in (p + 1)..(p + 2)
        /\ s[5] = "-" /\ s[p] = "-"
        /\ AllDigits(s, 1, 4) /\ AllDigits(s, 6, p - 1)
        /\ \/ AllDigits(s, p + 1, Len(s))
           \/ Len(s) = p + 2 /\ s[p + 1] = " " /\ IsDigit(s[p + 2])
        /\ RealDay(DateOf(s).year, DateOf(s).month, DateOf(s).day)

HasLinkAndTime(e) == e.has_a /\ e.has_href /\ e.has_time

\* the Events of the entries of a page that have a link and a date of the form
KeptEntries(page, base_url, Form(_)) ==
    {Stub(urljoin(base_url, page[k].href), DateOf(page[k].datetime)) :
        k \in {j \in 1..Len(page) : HasLinkAndTime(page[j]) /\ Form(page[j].datetime)}}

\* C6 as stated: the returned set holds an Event for each entry with a headline
\* link and a datetime attribute in YYYY-MM-DD form, and nothing else.
C6_KeepsIsoEntries ==
    pc = "resolve" => events_info = KeptEntries(html, start_url(Offsets[i]), IsoDate)

\* C6 as amended: the returned set holds an Event (absolute link, the named
\* calendar date) for each entry with a headline link and a datetime attribute
\* the "%Y-%m-%d" parser takes, and nothing for any other entry; a malformed
\* entry neither removes nor alters a sibling and never aborts the parse.
C6_KeepsAcceptedEntries ==
    /\ pc = "resolve" =>
          events_info = KeptEntries(html, start_url(Offsets[i]), AcceptedDate)
    /\ pc = "parse" =>
          events_info = KeptEntries(SubSeq(html, 1, li - 1), start_url(Offsets[i]),
                                    AcceptedDate)
    /\ \A e \in events_info : IsAbsolute(e.link)

\* a parsed page with an unpadded date kept, next to a malformed sibling
C6_Witness ==
    /\ pc = "resolve"
    /\ Len(html) = 3
    /\ html[1].datetime = DateA /\ HasLinkAndTime(html[1])
    /\ html[2].datetime = DateSlashes /\ HasLinkAndTime(html[2])
    /\ html[3].datetime = DateUnpadded /\ HasLinkAndTime(html[3])
    /\ html[1].href = HrefRel1 /\ html[3].href = HrefRoot2
    /\ Cardinality(events_info) = 2

\* C7: generate_map with an empty list never creates, overwrites or modifies
\* the output file; the file is written only for a non-empty list, and then
\* exactly once.
C7_MapNoOp ==
    /\ [][(file' # file \/ writes' # writes) =>
              (marker_positions # <<>> /\ writes = 0 /\ writes' = 1)]_vars
    /\ []((pc = "done" /\ marker_positions # <<>>) => writes = 1)
    /\ []((pc = "done" /\ marker_positions = <<>>) => writes = 0)

\* generate_map has returned from an empty list and the earlier file is as it was
C7_Witness ==
    /\ pc = "done"
    /\ mapCalls = 1
    /\ marker_positions = <<>>
    /\ file = OldFile

\* the marker the claim expects for an event
ExpectedMarker(e) ==
    [location |-> <<e.lat, e.lon>>,
     popup |-> [href |-> e.link, text |-> title(e.link), date |-> strftime(e.datetime)]]

\* C8: the saved map holds exactly one marker per event of the list, at the
\* event's (latitude, longitude) with the popup of its link, title and date,
\* and exactly one reset-view control.
C8_OneMarkerPerEvent ==
    /\ pc = "markers" =>
          /\ m.controls = 1
          /\ Len(m.markers) <= Len(marker_positions)
          /\ \A k \in 1..Len(m.markers) : m.markers[k] = ExpectedMarker(marker_positions[k])
    /\ (pc = "done" /\ marker_positions # <<>>) =>
          /\ file.exists
          /\ file.controls = 1
          /\ Len(file.markers) = Len(marker_positions)
          /\ \A k \in 1..Len(marker_positions) :
                file.markers[k] = ExpectedMarker(marker_positions[k])

\* the end-to-end run: the pages at offsets 0 and 10 yield one event each, the
\* other pages none, and the saved map has the two markers and one control
C8_Witness ==
    /\ pc = "done"
    /\ origin = <<0, 10>>
    /\ Len(file.markers) = 2
    /\ file.controls = 1
    /\ file.markers[1].location = <<[num |-> 4885, exp |-> 2], [num |-> 235, exp |-> 2]>>
    /\ file.markers[2].location = <<[num |-> -5, exp |-> 1], [num |-> 436, exp |-> 1]>>
    /\ file.markers[1].popup.text = <<"Autumn", " ", "Forest", " ", "Walk">>
    /\ file.markers[1].popup.date = <<"April", " ", "0", "5", ",", " ", "2", "0", "2", "4">>

\* C9: every event of the lists built for generate_map has the link and date
\* of a discovered stub and the coordinates of a marker match in its own
\* fetched detail page; stubs keep the (0.0, 0.0) sentinel.
C9_OnlyResolvedReachMap ==
    /\ \A e \in Range(positions) \cup Range(marker_positions) :
          /\ \E stub \in discovered : stub.link = e.link /\ stub.datetime = e.datetime
          /\ detail[e.link].ok
          /\ LET match == search(detail[e.link].text)
             IN  /\ match.ok
                 /\ float(match.g1).ok /\ e.lat = float(match.g1).val
                 /\ float(match.g2).ok /\ e.lon = float(match.g2).val
    /\ \A stub \in discovered \cup events_info \cup todo :
          stub.lat = Zero /\ stub.lon = Zero

\* generate_map is called with a resolved event while another discovered event,
\* unfetchable or without marker, was dropped
C9_Witness ==
    /\ pc = "generate_map"
    /\ marker_positions # <<>>
    /\ \E stub \in discovered :
          /\ ~detail[stub.link].ok \/ ~search(detail[stub.link].text).ok
          /\ \A e \in Range(marker_positions) : e.link # stub.link

\* C10: every run ends normally: generate_map is called exactly once, after all
\* listing pages and their detail pages, also when no event was resolved (and
\* then no output file exists).
C10_RunEndsNormally ==
    /\ pc # "crashed"
    /\ mapCalls <= 1
    /\ mapCalls = 1 =>
          (i > NumPages /\ todo = {} /\ fetched = [k \in 1..NumPages |-> Offsets[k]])
    /\ pc = "done" => (mapCalls = 1 /\ (positions = <<>> => ~file.exists))

====
